---------------------------- MODULE Spec2Model ----------------------------
(***************************************************************************)
(* A model of flypy's Query builder (src/flypy/query.py) and of the Leg    *)
(* value object (src/leg.py).                                              *)
(*                                                                         *)
(* Python values are tagged records [ty, val].  A str is the sequence of   *)
(* its pieces: a date string is held character by character (the code      *)
(* orders date strings with >), every other string as the pieces it was    *)
(* concatenated from.  Comparisons follow Python 3: ordering a str or an   *)
(* int against None raises TypeError.                                      *)
(***************************************************************************)
EXTENDS Integers, Sequences, FiniteSets, TLC

VARIABLES
    self,     \* the Query object: its nine fields (query.py 29-37)
    leg,      \* the Leg object, None before construction (leg.py 27-33)
    now,      \* the reading datetime.datetime.now() gives
    call,     \* the last call made: [op, args]
    ret,      \* what the call returned, or the exception it raised
    events    \* the outside-visible steps the call took, in order: what it
              \* printed, posted, wrote to the data file, decoded, returned

vars == <<self, leg, now, call, ret, events>>

---------------------------------------------------------------------------
(* Bounds of the model *)

\* passenger counts given to add_pax range over -1 .. MaxCount
MaxCount == 1
\* stop counts given to add_max_stops range over 0 .. MaxStops
MaxStops == 1
\* dates range over the years 2029 .. 2029 + MaxYearSpan
MaxYearSpan == 1

---------------------------------------------------------------------------
(* Python values *)

None == [ty |-> "NoneType", val |-> <<>>]
PyStr(pieces) == [ty |-> "str", val |-> pieces]
PyInt(n) == [ty |-> "int", val |-> n]
PyBool(b) == [ty |-> "bool", val |-> b]
PyDict(d) == [ty |-> "dict", val |-> d]
Raise(exc) == [ty |-> "raise", val |-> exc]
False == PyBool(FALSE)

\* bool(v)
Truthy(v) ==
    CASE v.ty = "NoneType" -> FALSE
      [] v.ty = "str" -> Len(v.val) > 0
      [] v.ty = "int" -> v.val # 0
      [] v.ty = "bool" -> v.val
      [] v.ty = "dict" -> DOMAIN v.val # {}
      [] OTHER -> TRUE

\* a or b
PyOr(a, b) == IF Truthy(a) THEN a ELSE b

\* a + b on str
Concat(a, b) == PyStr(a.val \o b.val)

DigitChars == <<"0", "1", "2", "3", "4", "5", "6", "7", "8", "9">>

\* ord(c) of the characters a date string is made of
Ord(c) ==
    IF c = "-" THEN 45
    ELSE 47 + (CHOOSE i \in 1..10 : DigitChars[i] = c)

RECURSIVE SeqGt(_, _)
\* s > t on two character sequences: lexicographic, a proper prefix is smaller
SeqGt(s, t) ==
    IF s = <<>> THEN FALSE
    ELSE IF t = <<>> THEN TRUE
    ELSE IF Head(s) # Head(t) THEN Ord(Head(s)) > Ord(Head(t))
    ELSE SeqGt(Tail(s), Tail(t))

\* a > b with None ordered below every other value, raising nothing
PyGt_none_lowest(a, b) ==
    CASE a.ty = "int" /\ b.ty = "int" -> PyBool(a.val > b.val)
      [] a.ty = "str" /\ b.ty = "str" -> PyBool(SeqGt(a.val, b.val))
      [] OTHER -> PyBool(a.ty # "NoneType" /\ b.ty = "NoneType")

\* a > b: a bool, or the TypeError Python 3 raises for unorderable operands
PyGt(a, b) ==
    CASE a.ty = "int" /\ b.ty = "int" -> PyBool(a.val > b.val)
      [] a.ty = "str" /\ b.ty = "str" -> PyBool(SeqGt(a.val, b.val))
      [] OTHER -> Raise("TypeError")

RECURSIVE NatDigits(_)
NatDigits(n) ==
    IF n < 10 THEN <<DigitChars[n + 1]>>
    ELSE NatDigits(n \div 10) \o <<DigitChars[(n % 10) + 1]>>

\* str(v) for None and int
str(v) ==
    CASE v.ty = "NoneType" -> PyStr(<<"None">>)
      [] v.ty = "int" ->
            PyStr(IF v.val < 0 THEN <<"-">> \o NatDigits(-v.val)
                  ELSE NatDigits(v.val))
      [] OTHER -> v

---------------------------------------------------------------------------
(* Dates and the clock *)

Years == 2029 .. (2029 + MaxYearSpan)
Months == {9, 10}
Days == {9, 10}

Pad2(n) == <<DigitChars[(n \div 10) + 1], DigitChars[(n % 10) + 1]>>

\* the date y-m-d written as YYYY-MM-DD, the format the setters document
DateString(y, m, d) ==
    PyStr(Pad2(y \div 100) \o Pad2(y % 100) \o <<"-">> \o Pad2(m)
          \o <<"-">> \o Pad2(d))

Dates == {DateString(y, m, d) : y \in Years, m \in Months, d \in Days}

DigitVal(c) == Ord(c) - 48

\* helper.str_to_date_tz_naive: the datetime at 00:00 of the date written
\* in s, as <<year, month, day, time of day>>
str_to_date_tz_naive(s) ==
    LET c == s.val IN
    << 1000 * DigitVal(c[1]) + 100 * DigitVal(c[2])
         + 10 * DigitVal(c[3]) + DigitVal(c[4]),
       10 * DigitVal(c[6]) + DigitVal(c[7]),
       10 * DigitVal(c[9]) + DigitVal(c[10]),
       0 >>

\* a > b on datetimes
DatetimeGt(a, b) ==
    \E i \in 1..4 : a[i] > b[i] /\ \A j \in 1..(i - 1) : a[j] = b[j]

\* the readings of the clock: 00:00 of a day (0) or later that day (1)
Clock == {<<y, m, d, t>> : y \in Years, m \in Months, d \in Days, t \in 0..1}

---------------------------------------------------------------------------
(* Reference lists *)

SYD == PyStr(<<"SYD">>)
MEL == PyStr(<<"MEL">>)
PVG == PyStr(<<"PVG">>)
XXX == PyStr(<<"XXX">>)
QF == PyStr(<<"QF">>)
MU == PyStr(<<"MU">>)
ZZ == PyStr(<<"ZZ">>)

AIRPORT_LIST ==
    << PyDict([iata_code |-> SYD, name |-> PyStr(<<"Sydney Kingsford Smith">>)]),
       PyDict([iata_code |-> MEL, name |-> PyStr(<<"Melbourne Tullamarine">>)]) >>

AIRLINE_LIST ==
    << PyDict([iata |-> QF, name |-> PyStr(<<"Qantas">>)]),
       PyDict([iata |-> MU, name |-> PyStr(<<"China Eastern">>)]) >>

RECURSIVE Scan(_, _, _)
\* for rec in list: if rec[key] == code: return rec; return None
Scan(list, key, code) ==
    IF list = <<>> THEN None
    ELSE IF Head(list).val[key] = code THEN Head(list)
    ELSE Scan(Tail(list), key, code)

\* the lookup with `return ap` outside the if: the first record, matching or not
_validate_iata_airport_first(code) ==
    IF AIRPORT_LIST = <<>> THEN None ELSE Head(AIRPORT_LIST)

_validate_iata_airport(code) == Scan(AIRPORT_LIST, "iata_code", code)

_validate_iata_airline(code) == Scan(AIRLINE_LIST, "iata", code)

---------------------------------------------------------------------------
(* Query *)

\* Query.__init__
NewQuery(no_results) ==
    [ no_results |-> no_results,
      origin |-> None,
      dest |-> None,
      dept_date |-> None,
      return_date |-> None,
      pax |-> None,
      airline |-> None,
      max_stops |-> None,
      max_stops_return |-> None ]

\* what a setter leaves behind: the new Query, the value returned (or the
\* exception raised); it takes no outside-visible step
Done(op, args, q, r) ==
    /\ self' = q
    /\ call' = [op |-> op, args |-> args]
    /\ ret' = r
    /\ events' = <<>>
    /\ UNCHANGED <<leg, now>>

InvalidCode == PyStr(<<"Invalid IATA code.">>)

add_origin(origin) ==
    LET ap == _validate_iata_airport(origin) IN
    IF Truthy(ap)
    THEN Done("add_origin", <<origin>>,
              [self EXCEPT !.origin = ap.val["iata_code"]],
              Concat(PyStr(<<"ORIGIN: ">>), ap.val["name"]))
    ELSE Done("add_origin", <<origin>>, self, InvalidCode)

add_dest(dest) ==
    LET ap == _validate_iata_airport(dest) IN
    IF Truthy(ap)
    THEN Done("add_dest", <<dest>>,
              [self EXCEPT !.dest = ap.val["iata_code"]],
              Concat(PyStr(<<"DEST: ">>), ap.val["name"]))
    ELSE Done("add_dest", <<dest>>, self, InvalidCode)

NotFuture == PyStr(<<"Date must be in the future.">>)

add_dept_date(dept_date) ==
    IF DatetimeGt(str_to_date_tz_naive(dept_date), now)
    THEN Done("add_dept_date", <<dept_date>>,
              [self EXCEPT !.dept_date = dept_date],
              Concat(PyStr(<<"DEPT_DATE: ">>), dept_date))
    ELSE Done("add_dept_date", <<dept_date>>, self, NotFuture)

NotFutureOrNotAfter ==
    PyStr(<<"Date must be in the future and after the departure date.">>)

\* the test with >= in place of >
ReturnDateTest_not_strict(return_date) ==
    IF DatetimeGt(str_to_date_tz_naive(return_date), now)
    THEN IF return_date = self.dept_date
         THEN PyBool(TRUE)
         ELSE PyGt(return_date, self.dept_date)
    ELSE False

\* the second operand of `and` is evaluated only when the first is true
ReturnDateTest(return_date) ==
    IF DatetimeGt(str_to_date_tz_naive(return_date), now)
    THEN PyGt(return_date, self.dept_date)
    ELSE False

add_return_date(return_date) ==
    LET test == ReturnDateTest(return_date) IN
    IF test.ty = "raise"
    THEN Done("add_return_date", <<return_date>>, self, test)
    ELSE IF Truthy(test)
    THEN Done("add_return_date", <<return_date>>,
              [self EXCEPT !.return_date = return_date],
              Concat(PyStr(<<"RETURN_DATE: ">>), return_date))
    ELSE Done("add_return_date", <<return_date>>, self, NotFutureOrNotAfter)

NoPassengers ==
    PyStr(<<"At least one type of passenger must be travelling.">>)

\* (adult or child or senior or infant_lap or infant_seat) > 0
PaxTest(adult, child, senior, infant_lap, infant_seat) ==
    PyGt(PyOr(PyOr(PyOr(PyOr(adult, child), senior), infant_lap), infant_seat),
         PyInt(0))

\* str(pax): the dict literal's keys in the order it lists them
PaxRepr(pax) ==
    PyStr(<<"{'adultCount': ">> \o str(pax.val["adultCount"]).val
          \o <<", 'childCount': ">> \o str(pax.val["childCount"]).val
          \o <<", 'infantInLapCount': ">> \o str(pax.val["infantInLapCount"]).val
          \o <<", 'infantInSeatCount': ">> \o str(pax.val["infantInSeatCount"]).val
          \o <<", 'seniorCount': ">> \o str(pax.val["seniorCount"]).val
          \o <<"}">>)

add_pax(adult, child, senior, infant_lap, infant_seat) ==
    LET args == <<adult, child, senior, infant_lap, infant_seat>>
        test == PaxTest(adult, child, senior, infant_lap, infant_seat)
        pax == PyDict([ adultCount |-> adult,
                        childCount |-> child,
                        infantInLapCount |-> infant_lap,
                        infantInSeatCount |-> infant_seat,
                        seniorCount |-> senior ])
    IN
    IF test.ty = "raise"
    THEN Done("add_pax", args, self, test)
    ELSE IF Truthy(test)
    THEN Done("add_pax", args, [self EXCEPT !.pax = pax],
              Concat(PyStr(<<"PAX: ">>), PaxRepr(pax)))
    ELSE Done("add_pax", args, self, NoPassengers)

add_airline(code) ==
    LET airline == _validate_iata_airline(code) IN
    IF Truthy(airline)
    THEN Done("add_airline", <<code>>,
              [self EXCEPT !.airline = airline.val["iata"]],
              Concat(PyStr(<<"PERMITTED_AIRLINE: ">>), airline.val["name"]))
    ELSE Done("add_airline", <<code>>, self, InvalidCode)

add_max_stops(max_stops_dept, max_stops_return) ==
    LET q1 == IF max_stops_dept # None
              THEN [self EXCEPT !.max_stops = str(max_stops_dept)]
              ELSE self
        q2 == IF max_stops_return # None
              THEN [q1 EXCEPT !.max_stops_return = str(max_stops_return)]
              ELSE q1
    IN
    Done("add_max_stops", <<max_stops_dept, max_stops_return>>, q2,
         Concat(Concat(Concat(PyStr(<<"MAX_STOPS: ">>), str(max_stops_dept)),
                       PyStr(<<", ">>)),
                str(max_stops_return)))


\* the check with pax left out of mandatory_params
_validate_params_exist_no_pax(q) ==
    LET mandatory_params == <<q.origin, q.dest, q.dept_date>> IN
    \A i \in DOMAIN mandatory_params : mandatory_params[i] # None

_validate_params_exist(q) ==
    LET mandatory_params == <<q.origin, q.dest, q.dept_date, q.pax>> IN
    \A i \in DOMAIN mandatory_params : mandatory_params[i] # None

\* d[k] = v
DictSet(d, k, v) == [x \in DOMAIN d \cup {k} |-> IF x = k THEN v ELSE d[x]]

\* the return slice with origin and destination not swapped
Slices_unswapped(q) ==
    LET out == [origin |-> q.origin, destination |-> q.dest,
                date |-> q.dept_date]
        back == [origin |-> q.origin, destination |-> q.dest,
                 date |-> q.return_date]
    IN IF q.return_date # None THEN <<out, back>> ELSE <<out>>

\* trip_slice after lines 99-111
Slices(q) ==
    LET out == [origin |-> q.origin, destination |-> q.dest,
                date |-> q.dept_date]
        back == [origin |-> q.dest, destination |-> q.origin,
                 date |-> q.return_date]
    IN IF q.return_date # None THEN <<out, back>> ELSE <<out>>

\* trip_slice after lines 112-114
WithCarrier(q, trip_slice) ==
    IF Truthy(q.airline)
    THEN [i \in DOMAIN trip_slice |->
             DictSet(trip_slice[i], "permittedCarrier", <<q.airline>>)]
    ELSE trip_slice

\* trip_slice after lines 115-116
WithMaxStops(q, trip_slice) ==
    IF Truthy(q.max_stops)
    THEN [trip_slice EXCEPT ![1] = DictSet(@, "maxStops", q.max_stops)]
    ELSE trip_slice

\* the query dict of lines 120-127 around a finished trip_slice
QueryDict(q, trip_slice) ==
    LET request == [passengers |-> q.pax, slice |-> trip_slice] IN
    PyDict([request |-> IF Truthy(q.no_results)
                        THEN DictSet(request, "solutions", q.no_results)
                        ELSE request])

\* the dict _format_query returns, or the IndexError trip_slice[1] raises
\* on a list of one slice
_format_query(q) ==
    LET trip_slice == WithMaxStops(q, WithCarrier(q, Slices(q))) IN
    IF Truthy(q.max_stops_return)
    THEN IF Len(trip_slice) < 2
         THEN Raise("IndexError")
         ELSE QueryDict(q, [trip_slice EXCEPT
                               ![2] = DictSet(@, "maxStops", q.max_stops_return)])
    ELSE QueryDict(q, trip_slice)

---------------------------------------------------------------------------
(* The remote service and the reply's decoding *)

GoodBody == PyStr(<<"{\"kind\": \"qpxExpress#tripsSearch\"}">>)
BadBody == PyStr(<<"<html>502 Bad Gateway</html>">>)

\* what requests.post(...) can do: raise, or give a reply with this text
NetOutcomes == {Raise("ConnectionError"), GoodBody, BadBody}

\* json.loads(r)
json_loads(r) ==
    IF r = GoodBody
    THEN PyDict([kind |-> PyStr(<<"qpxExpress#tripsSearch">>)])
    ELSE Raise("ValueError")

\* query_response.QueryResponse(data)
QueryResponse(data) == [ty |-> "QueryResponse", val |-> data]

MissingParams == PyStr(<<"All mandatory parameters not supplied.">>)

\* send() writing the file after json.loads instead of before it
Receive_write_after_loads(payload, r) ==
    LET data == json_loads(r)
        upto == << <<"_format_query", payload>>, <<"post", payload>>,
                   <<"loads", r>> >>
    IN
    IF data.ty = "raise"
    THEN /\ events' = upto
         /\ ret' = data
    ELSE /\ events' = upto \o << <<"write", r>>,
                                 <<"return", QueryResponse(data)>> >>
         /\ ret' = QueryResponse(data)

\* the steps of send() once the payload is built and the reply r is in
Receive(payload, r) ==
    LET data == json_loads(r)
        upto == << <<"_format_query", payload>>, <<"post", payload>>,
                   <<"write", r>>, <<"loads", r>> >>
    IN
    IF data.ty = "raise"
    THEN /\ events' = upto
         /\ ret' = data
    ELSE /\ events' = Append(upto, <<"return", QueryResponse(data)>>)
         /\ ret' = QueryResponse(data)

send ==
    /\ call' = [op |-> "send", args |-> <<>>]
    /\ UNCHANGED <<self, leg, now>>
    /\ IF _validate_params_exist(self)
       THEN LET payload == _format_query(self) IN
            IF payload.ty = "raise"
            THEN /\ events' = << <<"_format_query", payload>> >>
                 /\ ret' = payload
            ELSE \E r \in NetOutcomes :
                    IF r.ty = "raise"
                    THEN /\ events' = << <<"_format_query", payload>>,
                                         <<"post", payload>> >>
                         /\ ret' = r
                    ELSE Receive(payload, r)
       ELSE /\ events' = << <<"print", MissingParams>> >>
            /\ ret' = False


---------------------------------------------------------------------------
(* Leg *)

\* Leg.__init__
NewLeg(origin, dest, dept_time, arr_time, flight, aircraft, duration) ==
    [ty |-> "Leg",
     val |-> [ origin |-> origin,
               dest |-> dest,
               dept_time |-> dept_time,
               arr_time |-> arr_time,
               flight |-> flight,
               aircraft |-> aircraft,
               duration |-> duration ]]

\* a timezone-aware datetime: <<year, month, day, hour, minute, UTC offset in minutes>>
PyDatetime(t) == [ty |-> "datetime", val |-> t]

LegTimes ==
    { PyDatetime(<<2030, 10, 9, 8, 30, 480>>),
      PyDatetime(<<2030, 10, 9, 21, 30, 660>>),
      PyDatetime(<<2030, 10, 10, 6, 5, 660>>) }

LegFlights == { PyDict([carrier |-> MU, number |-> PyStr(<<"737">>)]),
                PyDict([carrier |-> QF, number |-> PyStr(<<"9">>)]) }

LegDurations == { PyStr(<<"6", "0", "0">>), PyStr(<<"8", "5">>) }

\* what a Leg method leaves behind
LegDone(op, args, l, r) ==
    /\ leg' = l
    /\ call' = [op |-> op, args |-> args]
    /\ ret' = r
    /\ events' = <<>>
    /\ UNCHANGED <<self, now>>

Leg__init__(origin, dest, dept_time, arr_time, flight, aircraft, duration) ==
    LegDone("Leg.__init__",
            <<origin, dest, dept_time, arr_time, flight, aircraft, duration>>,
            NewLeg(origin, dest, dept_time, arr_time, flight, aircraft, duration),
            None)

\* "{}{} from {} to {}. DUR: {}. AC: {}.".format(...)
Leg__str__(l) ==
    PyStr(l.flight.val["carrier"].val \o l.flight.val["number"].val
          \o <<" from ">> \o l.origin.val \o <<" to ">> \o l.dest.val
          \o <<". DUR: ">> \o l.duration.val \o <<". AC: ">> \o l.aircraft.val
          \o <<".">>)

RECURSIVE DigitsValue(_, _)
DigitsValue(cs, acc) ==
    IF cs = <<>> THEN acc
    ELSE DigitsValue(Tail(cs), 10 * acc + DigitVal(Head(cs)))

\* int(s) on a str of decimal digits
int(s) == PyInt(DigitsValue(s.val, 0))

get_origin == leg.ty = "Leg" /\ LegDone("get_origin", <<>>, leg, leg.val.origin)

get_dest == leg.ty = "Leg" /\ LegDone("get_dest", <<>>, leg, leg.val.dest)

get_dept_time ==
    leg.ty = "Leg" /\ LegDone("get_dept_time", <<>>, leg, leg.val.dept_time)

\* the accessor returning self.arr_time
get_arr_time_arrival ==
    leg.ty = "Leg" /\ LegDone("get_arr_time", <<>>, leg, leg.val.arr_time)

get_arr_time ==
    leg.ty = "Leg" /\ LegDone("get_arr_time", <<>>, leg, leg.val.dept_time)

get_flight == leg.ty = "Leg" /\ LegDone("get_flight", <<>>, leg, leg.val.flight)

get_aircraft ==
    leg.ty = "Leg" /\ LegDone("get_aircraft", <<>>, leg, leg.val.aircraft)

get_duration ==
    leg.ty = "Leg" /\ LegDone("get_duration", <<>>, leg, int(leg.val.duration))

__str__ == leg.ty = "Leg" /\ LegDone("__str__", <<>>, leg, Leg__str__(leg.val))

---------------------------------------------------------------------------
(* The clock, the callers and the specifications *)

\* time passes between two calls: the clock moves to a later reading in C
Tick(C) ==
    /\ \E t \in C : DatetimeGt(t, now) /\ now' = t
    /\ call' = [op |-> "tick", args |-> <<>>]
    /\ ret' = None
    /\ events' = <<>>
    /\ UNCHANGED <<self, leg>>

\* a Query just constructed, at a clock reading in C
Start(C, no_results_choices) ==
    /\ \E n \in no_results_choices :
          /\ self = NewQuery(n)
          /\ call = [op |-> "__init__", args |-> <<n>>]
    /\ leg = None
    /\ now \in C
    /\ ret = None
    /\ events = <<>>

Counts == {None} \cup {PyInt(n) : n \in (-1) .. MaxCount}
Stops == {None} \cup {PyInt(n) : n \in 0 .. MaxStops}

\* the inputs of the specification of the whole Query
MenuAirports == {SYD, MEL, XXX}
MenuAirlines == {QF, ZZ}
MenuDates == {DateString(2029, 10, d) : d \in Days}
\* <<adult, infant_seat>>, the other counts left at their default
MenuCounts == {<<PyInt(1), None>>, <<PyInt(0), PyInt(0)>>, <<None, None>>}
EarliestReading == <<2029, 9, 9, 1>>

Init == Start({EarliestReading}, {None, PyInt(3)})

Next ==
    \/ \E code \in MenuAirports : add_origin(code)
    \/ \E code \in MenuAirports : add_dest(code)
    \/ \E d \in MenuDates : add_dept_date(d)
    \/ \E d \in MenuDates : add_return_date(d)
    \/ \E c \in MenuCounts : add_pax(c[1], None, None, None, c[2])
    \/ \E code \in MenuAirlines : add_airline(code)
    \/ \E a, b \in Stops : add_max_stops(a, b)
    \/ send

Spec == Init /\ [][Next]_vars

\* the two date setters under a moving clock, over every date
InitDates == Start(Clock, {None})

NextDates ==
    \/ \E d \in Dates : add_dept_date(d)
    \/ \E d \in Dates : add_return_date(d)
    \/ Tick(Clock)

SpecDates == InitDates /\ [][NextDates]_vars

\* add_pax over every combination of the five counts, given to a Query whose
\* pax is unset; on a Query whose pax is set, the calls of the menu
InitPax == Start({EarliestReading}, {None})

NextPax ==
    \/ \E adult, child, senior, infant_lap, infant_seat \in Counts :
          /\ self.pax = None
          /\ add_pax(adult, child, senior, infant_lap, infant_seat)
    \/ \E c \in MenuCounts : add_pax(c[1], None, None, None, c[2])

SpecPax == InitPax /\ [][NextPax]_vars

\* a Leg and its accessors
InitLeg == Start({EarliestReading}, {None})

NextLeg ==
    \/ \E origin \in {PVG, SYD}, dest \in {MEL, SYD},
          dept_time \in LegTimes, arr_time \in LegTimes,
          flight \in LegFlights, duration \in LegDurations :
          Leg__init__(origin, dest, dept_time, arr_time, flight,
                      PyStr(<<"773">>), duration)
    \/ get_origin
    \/ get_dest
    \/ get_dept_time
    \/ get_arr_time
    \/ get_flight
    \/ get_aircraft
    \/ get_duration
    \/ __str__

SpecLeg == InitLeg /\ [][NextLeg]_vars

---------------------------------------------------------------------------
(* What the claims speak of *)

\* the four mandatory fields are all set
AllSet(q) ==
    /\ q.origin # None
    /\ q.dest # None
    /\ q.dept_date # None
    /\ q.pax # None

\* the names of the steps the last call took
Steps == [i \in DOMAIN events |-> events[i][1]]

Took(step) == \E i \in DOMAIN events : events[i][1] = step

\* the str t occurs in the str s
Contains(s, t) ==
    \E i \in 0 .. (Len(s.val) - Len(t.val)) :
        SubSeq(s.val, i + 1, i + Len(t.val)) = t.val

\* the record of `list` whose `key` is `code`, if there is one
Listed(list, key, code) == {i \in DOMAIN list : list[i].val[key] = code}

\* date string a is a later day than date string b
LaterDay(a, b) ==
    DatetimeGt(str_to_date_tz_naive(a), str_to_date_tz_naive(b))

\* the last send() built its request
Built ==
    /\ call.op = "send"
    /\ events # <<>>
    /\ events[1][1] = "_format_query"
    /\ events[1][2].ty = "dict"

BuiltSlices == events[1][2].val.request.slice

---------------------------------------------------------------------------
(* C1 *)

C1_State ==
    (call.op = "send" /\ ~AllSet(self)) =>
        /\ ret = False
        /\ ~Took("post")
        /\ ~Took("write")

\* C1: a send() on a Query with any of origin, dest, dept_date, pax unset
\* posts nothing, writes nothing and returns False; a request is posted
\* only when all four are set.
C1_SendRefusesIncomplete == C1_State /\ (Took("post") => AllSet(self))

C1_Witness ==
    /\ call.op = "send"
    /\ self.origin # None /\ self.dest # None /\ self.dept_date # None
    /\ self.pax = None
    /\ ret = False

---------------------------------------------------------------------------
(* C2 *)

\* C2: whatever add_dept_date and add_return_date calls were made, a stored
\* return_date is a strictly later day than the stored dept_date.
C2_ReturnAfterDept ==
    self.return_date # None =>
        /\ self.dept_date # None
        /\ LaterDay(self.return_date, self.dept_date)

---------------------------------------------------------------------------
(* C3 *)

C3_Lookup(op, field, prefix) ==
    call.op = op =>
        LET code == call.args[1]
            hits == Listed(AIRPORT_LIST, "iata_code", code)
        IN IF hits # {}
           THEN /\ self[field] = code
                /\ ret.ty = "str"
                /\ ret # InvalidCode
                /\ \E i \in hits :
                      /\ self[field] = AIRPORT_LIST[i].val["iata_code"]
                      /\ Contains(ret, AIRPORT_LIST[i].val["name"])
                      /\ Contains(ret, PyStr(<<prefix>>))
           ELSE ret = InvalidCode

C3_State ==
    /\ C3_Lookup("add_origin", "origin", "ORIGIN: ")
    /\ C3_Lookup("add_dest", "dest", "DEST: ")

C3_Step ==
    (call'.op \in {"add_origin", "add_dest"} /\ ret' = InvalidCode)
        => self' = self

---------------------------------------------------------------------------
(* C4 *)

C4_State ==
    (call.op = "add_return_date" /\ self.dept_date # None) =>
        LET d == call.args[1] IN
        IF /\ DatetimeGt(str_to_date_tz_naive(d), now)
           /\ LaterDay(d, self.dept_date)
        THEN /\ self.return_date = d
             /\ ret = Concat(PyStr(<<"RETURN_DATE: ">>), d)
        ELSE ret = NotFutureOrNotAfter

C4_Step ==
    (call'.op = "add_return_date" /\ ret' = NotFutureOrNotAfter)
        => self'.return_date = self.return_date

\* C4: with a departure date stored, add_return_date(d) stores d and
\* reports success exactly when d is after the current moment and a later
\* day than the departure date; otherwise it returns the failure string
\* and return_date is as it was.
C4_ReturnDateIff == []C4_State /\ [][C4_Step]_vars

C4_Witness ==
    /\ call.op = "add_return_date"
    /\ self.dept_date # None
    /\ self.dept_date = DateString(2029, 10, 10)
    /\ self.return_date = DateString(2030, 9, 9)
    /\ call.args[1] = self.return_date
    /\ ret = Concat(PyStr(<<"RETURN_DATE: ">>), call.args[1])

---------------------------------------------------------------------------
(* C5 *)

ZeroOrAbsent(args) == \A i \in DOMAIN args : args[i] \in {None, PyInt(0)}

NoneNegative(args) ==
    \A i \in DOMAIN args : args[i] = None \/ args[i].val >= 0

\* C5, for counts that are absent or not negative: add_pax returns the
\* failure string exactly when every count is zero or absent, and in every
\* other case stores the record of the five counts.
C5_FailsIffNoPassenger ==
    (call.op = "add_pax" /\ NoneNegative(call.args)) =>
        /\ ret = NoPassengers <=> ZeroOrAbsent(call.args)
        /\ ~ZeroOrAbsent(call.args) =>
              self.pax = PyDict([ adultCount |-> call.args[1],
                                  childCount |-> call.args[2],
                                  infantInLapCount |-> call.args[4],
                                  infantInSeatCount |-> call.args[5],
                                  seniorCount |-> call.args[3] ])

---------------------------------------------------------------------------
(* C6 *)

C6_Outward(sl) ==
    /\ sl.origin = self.origin
    /\ sl.destination = self.dest
    /\ sl.date = self.dept_date

C6_Return(sl) ==
    /\ sl.origin = self.dest
    /\ sl.destination = self.origin
    /\ sl.date = self.return_date

C6_Carrier(sl) ==
    IF self.airline # None
    THEN /\ "permittedCarrier" \in DOMAIN sl
         /\ sl["permittedCarrier"] = <<self.airline>>
    ELSE "permittedCarrier" \notin DOMAIN sl

\* C6: the request a send() builds has one slice (origin, dest, dept_date)
\* when no return date is set and two when one is set, the second with
\* origin and destination swapped and the return date; every slice carries
\* permittedCarrier = [airline] when an airline is set, and none does when
\* none is set.
C6_Slices ==
    Built =>
        /\ Len(BuiltSlices) = IF self.return_date = None THEN 1 ELSE 2
        /\ C6_Outward(BuiltSlices[1])
        /\ self.return_date # None => C6_Return(BuiltSlices[2])
        /\ \A i \in DOMAIN BuiltSlices : C6_Carrier(BuiltSlices[i])

C6_Witness ==
    /\ Built
    /\ Took("post")
    /\ self.return_date # None
    /\ self.airline = QF
    /\ self.origin = SYD
    /\ self.dest = MEL

---------------------------------------------------------------------------
(* C7 *)

C7_Cap(sl, cap) ==
    IF cap # None
    THEN "maxStops" \in DOMAIN sl /\ sl["maxStops"] = cap
    ELSE "maxStops" \notin DOMAIN sl

\* C7: on every Query that passes send()'s precondition the request gets
\* built, with the outward cap on the outward slice exactly when it is set
\* and the return cap on the return slice only.
C7_BuildCompletes ==
    (call.op = "send" /\ AllSet(self)) =>
        /\ Built
        /\ C7_Cap(BuiltSlices[1], self.max_stops)
        /\ Len(BuiltSlices) = 2 =>
              C7_Cap(BuiltSlices[2], self.max_stops_return)

---------------------------------------------------------------------------
(* C8 *)

---------------------------------------------------------------------------
(* C9 *)

\* C9: while no departure date has been stored, no return date is stored
\* either: add_return_date returns the failure string or raises.
C9_NoReturnWithoutDept ==
    self.dept_date = None =>
        /\ self.return_date = None
        /\ call.op = "add_return_date" =>
              ret \in {NotFutureOrNotAfter, Raise("TypeError")}

C9_Witness ==
    /\ call.op = "add_return_date"
    /\ self.dept_date = None
    /\ self.return_date = None
    /\ ret = Raise("TypeError")

---------------------------------------------------------------------------
(* C10 *)

SendOrder == <<"_format_query", "post", "write", "loads", "return">>

C10_State ==
    (call.op = "send" /\ AllSet(self)) =>
        /\ Len(events) \in 1 .. 5
        /\ Steps = SubSeq(SendOrder, 1, Len(events))
        /\ Took("post") => events[2][2] = events[1][2]
        /\ (Took("post") /\ ret # Raise("ConnectionError")) => Took("write")
        /\ ret = Raise("ValueError") => Len(events) = 4
        /\ Took("loads") => events[4][2] = events[3][2]
        /\ Took("return") => events[5][2] = ret /\ ret.ty = "QueryResponse"
        /\ ret.ty = "QueryResponse" => Took("return")

C10_Step ==
    call'.op = "send" =>
        /\ self' = self
        /\ (call.op = "send" /\ Took("post") /\ events'[1][2].ty = "dict")
              => events'[1][2] = events[2][2]

=============================================================================
